---- MODULE Spec2Model ----
(***************************************************************************)
(* Model of SMILES-Data-Miner/Betaxantina.py: the fetch-score-rank         *)
(* pipeline.  main() reads a list of KEGG identifiers, fans the calls of   *)
(* evaluar_similitud out over a multiprocessing pool, consumes the results *)
(* of pool.imap_unordered in completion order, sorts the matches by        *)
(* descending similarity and writes the match file, the failure file and   *)
(* the image.                                                              *)
(*                                                                         *)
(* Encoding of Python values:                                              *)
(*   identifiers   natural numbers (CompoundId), opaque and distinct       *)
(*   SMILES        natural numbers; 0 is the empty string ""               *)
(*   similarity    0..MaxSim, in units of 1/MaxSim (MaxSim is 1.0)         *)
(*   threshold     0..MaxSim+1 in the same units (MaxSim+1 is above 1.0)   *)
(*   None          the empty tuple                                         *)
(*   a result      the tuple <<kegg_id, smiles, sim>>                      *)
(***************************************************************************)
EXTENDS Integers, Sequences, FiniteSets

\* ---- bounds of the model ----
MaxIds == 3          \* longest input list (single run)
MaxPairIds == 2      \* longest input list when a run is repeated
MaxSim == 2          \* number of similarity levels above 0.0
MaxProcs == 2        \* largest --processes

\* resultados[:6], line 142
TopN == 6

None == <<>>
NoSmiles == -1

CompoundId(i) == 100 + i

\* read_kegg_ids: one identifier per non-empty line; a stripped non-empty
\* line has a non-empty first field, so every identifier is a non-empty string.
\* The lists considered hold distinct identifiers.
InputLists(max) == { [i \in 1..n |-> CompoundId(i)] : n \in 0..max }

\* What the KEGG REST endpoint answers for one identifier:
\*   ok      requests.get and raise_for_status raised nothing
\*   mol     Chem.MolFromMolBlock returned a molecule
\*   smiles  Chem.MolToSmiles of that molecule (0 is "")
Responses ==
    { [ok |-> FALSE, mol |-> FALSE, smiles |-> 0],
      [ok |-> TRUE,  mol |-> FALSE, smiles |-> 0] }
    \cup { [ok |-> TRUE, mol |-> TRUE, smiles |-> s] : s \in 0..(MaxSim + 1) }

VARIABLES
    kegg_ids,     \* the list read from the input file
    threshold,    \* args.threshold
    processes,    \* args.processes
    resp,         \* the answer of the remote endpoint per identifier
    pc,           \* position of main()
    nextTask,     \* index of the next pool_args entry no worker has taken
    running,      \* indices of the tasks the workers are executing
    outq,         \* results completed and not yet consumed by main
    arrival,      \* identifiers in the order their results were completed
    returned,     \* what evaluar_similitud returned, per completed identifier
    consumed,     \* number of (res, kegg_id) pairs the zip has yielded
    resultados,   \* list of match records
    failed_ids,   \* list of failed identifiers
    files,        \* the three output files
    writes,       \* how often each output file was opened for writing
    run,          \* 1 for the first run, 2 for the repeated run
    prev          \* what the first run left behind

vars == << kegg_ids, threshold, processes, resp, pc, nextTask, running, outq,
           arrival, returned, consumed, resultados, failed_ids, files, writes, run, prev >>

NoFiles ==
    [ out    |-> [exists |-> FALSE, rows |-> <<>>],
      failed |-> [exists |-> FALSE, rows |-> <<>>],
      img    |-> [exists |-> FALSE, rows |-> <<>>] ]

NoWrites == [ out |-> 0, failed |-> 0, img |-> 0 ]

NoPrev ==
    [ resp |-> << >>, arrival |-> <<>>, resultados |-> <<>>,
      failed_ids |-> <<>>, files |-> NoFiles ]

\* ---- the worker: lines 42-76 ----

\* Python truth value of a SMILES string or None
Truthy(smiles) == smiles > 0

\* get_smiles_from_kegg, lines 42-54: any exception is caught and logged,
\* a response that does not parse gives None
get_smiles_from_kegg(kegg_id) ==
    LET r == resp[kegg_id] IN
    IF r.ok /\ r.mol THEN r.smiles ELSE NoSmiles

\* tanimoto_similarity_pair, lines 56-64: the RDKit Tanimoto similarity of
\* the fetched structure against the reference, a value in [0, 1].  SMILES s
\* (s >= 1) stands for a structure of similarity level s - 1; level 0 is also
\* what line 64 returns when a structure does not parse.
tanimoto_similarity_pair(smiles) == smiles - 1

\* line 69: kegg_id is a non-empty string (0 stands for the empty string)
ValidId(kegg_id) == kegg_id > 0

\* evaluar_similitud with the threshold comparison left out
evaluar_similitud_nothreshold(kegg_id) ==
    IF ~ValidId(kegg_id) THEN None
    ELSE LET smiles == get_smiles_from_kegg(kegg_id) IN
         IF Truthy(smiles)
         THEN << kegg_id, smiles, tanimoto_similarity_pair(smiles) >>
         ELSE None

\* evaluar_similitud, lines 66-76
evaluar_similitud(kegg_id) ==
    IF ~ValidId(kegg_id) THEN None
    ELSE LET smiles == get_smiles_from_kegg(kegg_id) IN
         IF Truthy(smiles)
         THEN LET sim == tanimoto_similarity_pair(smiles) IN
              IF sim >= threshold THEN << kegg_id, smiles, sim >> ELSE None
         ELSE None

\* ---- list.sort(key=lambda x: x[2], reverse=True), line 121 ----
\* Python's sort is stable, also with reverse=True: records of equal
\* similarity keep the order they had in the list.
\* the insertion of an ascending sort (reverse=True forgotten)
RECURSIVE InsertAsc(_, _)
InsertAsc(s, r) ==
    IF s = <<>> THEN << r >>
    ELSE IF Head(s)[3] <= r[3]
         THEN << Head(s) >> \o InsertAsc(Tail(s), r)
         ELSE << r >> \o s

RECURSIVE InsertDesc(_, _)
InsertDesc(s, r) ==
    IF s = <<>> THEN << r >>
    ELSE IF Head(s)[3] >= r[3]
         THEN << Head(s) >> \o InsertDesc(Tail(s), r)
         ELSE << r >> \o s

\* no sort at all: the list stays in arrival order
SortNone(s) == s

RECURSIVE SortDesc(_)
SortDesc(s) ==
    IF s = <<>> THEN <<>>
    ELSE InsertDesc(SortDesc(SubSeq(s, 1, Len(s) - 1)), s[Len(s)])

Min(a, b) == IF a <= b THEN a ELSE b

\* ---- main, lines 78-145 ----

InitWith(max) ==
    /\ kegg_ids \in InputLists(max)
    /\ threshold \in 0..(MaxSim + 1)
    /\ processes \in 1..MaxProcs
    /\ resp \in [ { kegg_ids[i] : i \in 1..Len(kegg_ids) } -> Responses ]
    /\ pc = "start"
    /\ nextTask = 1
    /\ running = {}
    /\ outq = <<>>
    /\ arrival = <<>>
    /\ returned = << >>
    /\ consumed = 0
    /\ resultados = <<>>
    /\ failed_ids = <<>>
    /\ files = NoFiles
    /\ writes = NoWrites
    /\ run = 1
    /\ prev = NoPrev

Init == InitWith(MaxIds)

\* lines 96-99: no identifiers, main returns
NoIds ==
    /\ pc = "start"
    /\ kegg_ids = <<>>
    /\ pc' = "done"
    /\ UNCHANGED << kegg_ids, threshold, processes, resp, nextTask, running,
                    outq, arrival, returned, consumed, resultados, failed_ids, files,
                    writes, run, prev >>

\* lines 101-113: the pool is created and every pool_args entry is submitted
StartPool ==
    /\ pc = "start"
    /\ kegg_ids # <<>>
    /\ pc' = "pool"
    /\ UNCHANGED << kegg_ids, threshold, processes, resp, nextTask, running,
                    outq, arrival, returned, consumed, resultados, failed_ids, files,
                    writes, run, prev >>

\* a free pool worker takes the next task; tasks are handed out in input order
WorkerTake ==
    /\ pc = "pool"
    /\ nextTask <= Len(kegg_ids)
    /\ Cardinality(running) < processes
    /\ running' = running \cup { nextTask }
    /\ nextTask' = nextTask + 1
    /\ UNCHANGED << kegg_ids, threshold, processes, resp, pc, outq, arrival, returned,
                    consumed, resultados, failed_ids, files, writes, run, prev >>

\* a worker finishes evaluar_similitud(pool_args[i]); imap_unordered makes the
\* result available as soon as it is complete, whatever its index
WorkerFinish(i) ==
    /\ pc = "pool"
    /\ i \in running
    /\ running' = running \ { i }
    /\ LET res == evaluar_similitud(kegg_ids[i]) IN
        /\ outq' = Append(outq, res)
        /\ returned' = [ x \in DOMAIN returned \cup { kegg_ids[i] } |->
                            IF x = kegg_ids[i] THEN res ELSE returned[x] ]
    /\ arrival' = Append(arrival, kegg_ids[i])
    /\ UNCHANGED << kegg_ids, threshold, processes, resp, pc, nextTask,
                    consumed, resultados, failed_ids, files, writes, run, prev >>

\* the loop left one pair early
FanInDoneEarly == consumed >= Len(kegg_ids) - 1

\* the zip of line 114 is exhausted once it has yielded a pair per identifier
FanInDone == consumed = Len(kegg_ids)

\* the loop body storing the zipped identifier in the match record
FanInZipId ==
    /\ pc = "pool"
    /\ ~FanInDone
    /\ outq # <<>>
    /\ LET res == Head(outq)
           kegg_id == kegg_ids[consumed + 1]
       IN  IF res # None
           THEN /\ resultados' = Append(resultados, << kegg_id, res[2], res[3] >>)
                /\ failed_ids' = failed_ids
           ELSE /\ failed_ids' = Append(failed_ids, kegg_id)
                /\ resultados' = resultados
    /\ outq' = Tail(outq)
    /\ consumed' = consumed + 1
    /\ UNCHANGED << kegg_ids, threshold, processes, resp, pc, nextTask,
                    running, arrival, returned, files, writes, run, prev >>

\* lines 114-118: one iteration of the loop; zip pairs the next completed
\* result with the next identifier of kegg_ids
FanIn ==
    /\ pc = "pool"
    /\ ~FanInDone
    /\ outq # <<>>
    /\ LET res == Head(outq)
           kegg_id == kegg_ids[consumed + 1]
       IN  IF res # None
           THEN /\ resultados' = Append(resultados, res)
                /\ failed_ids' = failed_ids
           ELSE /\ failed_ids' = Append(failed_ids, kegg_id)
                /\ resultados' = resultados
    /\ outq' = Tail(outq)
    /\ consumed' = consumed + 1
    /\ UNCHANGED << kegg_ids, threshold, processes, resp, pc, nextTask,
                    running, arrival, returned, files, writes, run, prev >>

\* the sort and the writes started without waiting for the loop to end
SortResultsEarly ==
    /\ pc = "pool"
    /\ consumed >= 1
    /\ resultados' = SortDesc(resultados)
    /\ pc' = "write_out"
    /\ UNCHANGED << kegg_ids, threshold, processes, resp, nextTask, running,
                    outq, arrival, returned, consumed, failed_ids, files, writes, run,
                    prev >>

\* line 121, after the with block has ended
SortResults ==
    /\ pc = "pool"
    /\ FanInDone
    /\ resultados' = SortDesc(resultados)
    /\ pc' = "write_out"
    /\ UNCHANGED << kegg_ids, threshold, processes, resp, nextTask, running,
                    outq, arrival, returned, consumed, failed_ids, files, writes, run,
                    prev >>

\* lines 124-127: the match file (the header row is left out)
WriteOutput ==
    /\ pc = "write_out"
    /\ files' = [files EXCEPT !.out = [exists |-> TRUE, rows |-> resultados]]
    /\ writes' = [writes EXCEPT !.out = @ + 1]
    /\ pc' = "write_failed"
    /\ UNCHANGED << kegg_ids, threshold, processes, resp, nextTask, running,
                    outq, arrival, returned, consumed, resultados, failed_ids, run, prev >>

\* lines 132-138: the failure file, only when an identifier failed
WriteFailed ==
    /\ pc = "write_failed"
    /\ IF failed_ids # <<>>
       THEN /\ files' = [files EXCEPT
                           !.failed = [exists |-> TRUE, rows |-> failed_ids]]
            /\ writes' = [writes EXCEPT !.failed = @ + 1]
       ELSE UNCHANGED << files, writes >>
    /\ pc' = "image"
    /\ UNCHANGED << kegg_ids, threshold, processes, resp, nextTask, running,
                    outq, arrival, returned, consumed, resultados, failed_ids, run, prev >>

\* lines 141-145: the grid image of the first TopN matches
SaveImage ==
    /\ pc = "image"
    /\ IF resultados # <<>>
       THEN /\ files' = [files EXCEPT
                           !.img = [exists |-> TRUE,
                                    rows |-> SubSeq(resultados, 1,
                                                    Min(TopN, Len(resultados)))]]
            /\ writes' = [writes EXCEPT !.img = @ + 1]
       ELSE UNCHANGED << files, writes >>
    /\ pc' = "done"
    /\ UNCHANGED << kegg_ids, threshold, processes, resp, nextTask, running,
                    outq, arrival, returned, consumed, resultados, failed_ids, run, prev >>

Next ==
    \/ NoIds
    \/ StartPool
    \/ WorkerTake
    \/ \E i \in running : WorkerFinish(i)
    \/ FanIn
    \/ SortResults
    \/ WriteOutput
    \/ WriteFailed
    \/ SaveImage

Spec == Init /\ [][Next]_vars

\* ---- a second run of main over the same input file ----

InitPair == InitWith(MaxPairIds)

FetchFailed == [ok |-> FALSE, mol |-> FALSE, smiles |-> 0]

\* The program is started again with the same arguments.  The remote endpoint
\* answers as before, or the fetch of one identifier that gave a structure
\* before now fails.  Output files of the first run stay on disk until they
\* are opened for writing again.
Rerun ==
    /\ pc = "done"
    /\ run = 1
    /\ kegg_ids # <<>>
    /\ prev' = [ resp |-> resp, arrival |-> arrival, resultados |-> resultados,
                 failed_ids |-> failed_ids, files |-> files ]
    /\ run' = 2
    /\ \/ resp' = resp
       \/ \E y \in DOMAIN resp :
            /\ resp[y].ok /\ resp[y].mol
            /\ resp' = [resp EXCEPT ![y] = FetchFailed]
    /\ pc' = "start"
    /\ nextTask' = 1
    /\ running' = {}
    /\ outq' = <<>>
    /\ arrival' = <<>>
    /\ returned' = << >>
    /\ consumed' = 0
    /\ resultados' = <<>>
    /\ failed_ids' = <<>>
    /\ writes' = NoWrites
    /\ UNCHANGED << kegg_ids, threshold, processes, files >>

NextPair == Next \/ Rerun

SpecPair == InitPair /\ [][NextPair]_vars

\* ---- vocabulary of the properties ----

Range(s) == { s[i] : i \in 1..Len(s) }

InputIds == Range(kegg_ids)

\* identifiers that have a record in a list of match records
MatchIdsOf(rs) == { rs[i][1] : i \in 1..Len(rs) }

Count(s, r) == Cardinality({ i \in 1..Len(s) : s[i] = r })

\* main has ended after a run over a non-empty input
Finished == pc = "done" /\ kegg_ids # <<>>

\* the fan-in loop has ended
AfterFanIn == pc \notin { "start", "pool" } /\ kegg_ids # <<>>

\* the fetch gave a structure whose similarity is under the threshold
BelowThreshold(id) ==
    /\ resp[id].ok /\ resp[id].mol /\ Truthy(resp[id].smiles)
    /\ tanimoto_similarity_pair(resp[id].smiles) < threshold

\* the record a worker builds for an identifier whose structure matches
RecordOf(id) ==
    << id, resp[id].smiles, tanimoto_similarity_pair(resp[id].smiles) >>

IsSortedDesc(rs) == \A i \in 1..(Len(rs) - 1) : rs[i][3] >= rs[i + 1][3]

SameRecords(a, b) ==
    /\ Len(a) = Len(b)
    /\ \A r \in Range(a) \cup Range(b) : Count(a, r) = Count(b, r)

\* the results were completed in the order of the input list
InOrder == arrival = kegg_ids

\* where an identifier ended up: << in the match list, in the failed list >>
Class(x, rs, fs) == << x \in MatchIdsOf(rs), x \in Range(fs) >>

\* ---- C1 ----
\* C1: after a run, an identifier is in the failed list if and only if the
\* result its own evaluar_similitud call produced was None, and the failure
\* file holds that list.
C1_FailedIffOwnNone ==
    Finished =>
        /\ \A id \in InputIds :
              (id \in Range(failed_ids)) <=> (returned[id] = None)
        /\ files.failed.rows = failed_ids

\* ---- C2 ----
\* C2: after a run, no identifier is both in a match record and in the failed
\* list (each is in the match list, in the failed list, or in neither), and
\* every identifier of either list is an input identifier.
C2_ExactlyOneBucket ==
    Finished =>
        /\ \A id \in InputIds :
              ~(id \in MatchIdsOf(resultados) /\ id \in Range(failed_ids))
        /\ MatchIdsOf(resultados) \cup Range(failed_ids) \subseteq InputIds

\* ---- C3 ----
\* C3: an identifier whose fetch succeeded with a similarity below the
\* threshold is in neither list and in neither file after the run.
C3_BelowThresholdDropped ==
    Finished =>
        \A id \in InputIds :
            BelowThreshold(id) =>
                /\ id \notin MatchIdsOf(resultados)
                /\ id \notin MatchIdsOf(files.out.rows)
                /\ id \notin Range(failed_ids)
                /\ id \notin Range(files.failed.rows)

\* ---- C4 ----
\* the second run has ended and the endpoint answered as in the first run
SameAnswers == run = 2 /\ pc = "done" /\ prev.resp = resp

\* C4 as stated: two runs over the same input with the same fetch outcomes
\* write the same rows in the same order to the match file.
C4_SameRows ==
    SameAnswers => files.out.rows = prev.files.out.rows

\* C4 as amended: two such runs write the same set of rows and the same
\* sequence of scores; a position where the two files differ holds a row whose
\* score is shared by another row, so with pairwise distinct scores the files
\* are equal, and rows of equal score come in arrival order.
C4_SameRowsUpToTies ==
    SameAnswers =>
        LET a == prev.files.out.rows
            b == files.out.rows
        IN  /\ SameRecords(a, b)
            /\ \A i \in 1..Len(b) : a[i][3] = b[i][3]
            /\ \A i \in 1..Len(b) :
                  a[i] # b[i] => \E j \in 1..Len(b) : j # i /\ b[j][3] = b[i][3]

C4_Witness ==
    /\ SameAnswers
    /\ arrival # prev.arrival
    /\ Len(files.out.rows) >= 2
    /\ files.out.rows[1][3] # files.out.rows[2][3]

\* ---- C5 ----
\* the two runs differ in the answer for y and for no other identifier
OneFetchFails(y) ==
    /\ prev.resp[y] # resp[y]
    /\ \A x \in InputIds \ { y } : prev.resp[x] = resp[x]

\* C5: when two runs with the same completion order differ only in whether
\* the fetch for one identifier fails, every other identifier ends up in the
\* same lists in both runs.
C5_FailureIsolated ==
    (run = 2 /\ pc = "done" /\ prev.arrival = arrival) =>
        \A y \in InputIds :
            OneFetchFails(y) =>
                \A x \in InputIds \ { y } :
                    Class(x, prev.resultados, prev.failed_ids)
                        = Class(x, resultados, failed_ids)

\* ---- C6 ----
\* C6: the sort leaves the match list in descending order of similarity and
\* keeps its records, and the match file is written from that sorted list.
C6_SortedDescending ==
    [][ /\ (pc = "pool" /\ pc' = "write_out") =>
              /\ IsSortedDesc(resultados')
              /\ SameRecords(resultados, resultados')
        /\ (pc = "write_out" /\ pc' = "write_failed") =>
              /\ files'.out.rows = resultados
              /\ IsSortedDesc(files'.out.rows) ]_vars

C6_Witness ==
    /\ Finished
    /\ Len(files.out.rows) >= 3
    /\ files.out.rows[1][1] = arrival[3]
    /\ files.out.rows[1][3] > files.out.rows[2][3]
    /\ files.out.rows[2][3] > files.out.rows[3][3]

\* ---- C7 ----
\* C7: after fan-in the match list holds exactly the records the workers
\* returned, each once: an identifier has a record if and only if its own
\* worker returned one, and every record is the one built for its identifier.
C7_MatchListIsWorkerRecords ==
    AfterFanIn =>
        /\ \A id \in InputIds :
              IF returned[id] # None
              THEN returned[id] = RecordOf(id) /\ Count(resultados, returned[id]) = 1
              ELSE id \notin MatchIdsOf(resultados)
        /\ \A i \in 1..Len(resultados) :
              /\ resultados[i][1] \in InputIds
              /\ resultados[i] = returned[resultados[i][1]]

C7_Witness ==
    /\ Finished
    /\ ~InOrder
    /\ resultados # <<>>
    /\ failed_ids # <<>>

\* ---- C8 ----
\* every dispatched task has completed and its result has been consumed
AllReceived ==
    /\ consumed = Len(kegg_ids)
    /\ nextTask > Len(kegg_ids)
    /\ running = {}
    /\ outq = <<>>

\* C8: a step that writes an output file is taken by main after every
\* worker's result has been received, it is no step of a worker, and no file
\* is opened for writing more than once.
C8_WriteAfterFanIn ==
    [][ (files' # files \/ writes' # writes) =>
            /\ AllReceived
            /\ pc \in { "write_out", "write_failed", "image" }
            /\ running' = running /\ outq' = outq /\ nextTask' = nextTask
            /\ \A f \in { "out", "failed", "img" } : writes'[f] <= 1 ]_vars

C8_Witness ==
    /\ Finished
    /\ ~InOrder
    /\ writes = [ out |-> 1, failed |-> 1, img |-> 1 ]

\* ---- C9 ----
\* C9: evaluar_similitud returns a record only when the fetch gave a structure
\* of similarity >= threshold, and None when the request failed or the
\* response did not parse; with a threshold above every similarity the match
\* list and the match file stay empty.
C9_RecordOnlyAboveThreshold ==
    /\ \A id \in DOMAIN returned :
          /\ returned[id] # None =>
                /\ resp[id].ok /\ resp[id].mol
                /\ returned[id] = RecordOf(id)
                /\ returned[id][3] >= threshold
          /\ ~(resp[id].ok /\ resp[id].mol) => returned[id] = None
    /\ threshold > MaxSim =>
          /\ \A k \in 1..Len(outq) : outq[k] = None
          /\ resultados = <<>>
          /\ files.out.rows = <<>>

C9_Witness ==
    /\ Finished
    /\ threshold > MaxSim
    /\ files.out.exists
    /\ \E id \in InputIds : Truthy(resp[id].smiles)
                            /\ tanimoto_similarity_pair(resp[id].smiles) = MaxSim
    /\ \E id \in InputIds : ~resp[id].ok

\* ---- C10 ----
\* C10: when the loop has ended every result has been consumed, the two lists
\* together have one entry per input identifier, the failed list one per
\* worker that returned None and the match list one per worker that returned
\* a record.
C10_CountsAddUp ==
    AfterFanIn =>
        /\ Len(resultados) + Len(failed_ids) = Len(kegg_ids)
        /\ AllReceived
        /\ Len(failed_ids) = Cardinality({ id \in InputIds : returned[id] = None })
        /\ Len(resultados) = Cardinality({ id \in InputIds : returned[id] # None })

C10_Witness ==
    /\ Finished
    /\ ~InOrder
    /\ Len(resultados) >= 1
    /\ Len(failed_ids) >= 2

====
